---- MODULE Spec2Model ----
(***************************************************************************)
(* Model of example_site/backend: the GraphQL mutation handlers            *)
(* (createUser, login, logout, createPost), the JWT authentication         *)
(* backend that runs in front of them, the in-process event bus (PUBSUB)    *)
(* that feeds the newPost subscription, and the count subscription.        *)
(*                                                                         *)
(* Concurrency: one asyncio event loop.  A handler runs without            *)
(* interruption between two awaits; every await of a database call is a    *)
(* point where other handlers run.  Each action below is one such          *)
(* uninterrupted stretch: the database call being awaited, followed by     *)
(* the code up to the next await or the return.                            *)
(*                                                                         *)
(* The account records carry the fields the handlers pass to User.create  *)
(* (routing.py:85); models.py declares no uniqueness constraint besides    *)
(* the primary key, so the store accepts any insert.  The store is the     *)
(* file db.sqlite3, which outlives the process: a run starts with the      *)
(* accounts SeedUsers in it and with the tokens earlier logins returned    *)
(* for them still in the hands of clients (a token carries no expiry).     *)
(*                                                                         *)
(* Four workloads are run: Spec, the four mutations running concurrently;   *)
(* SpecBus, createPost requests running concurrently with newPost          *)
(* subscriptions that open, read and close; SpecHeader, createPost         *)
(* requests with every shape of Authorization header; and SpecCount,       *)
(* count subscriptions that run to their limit or are cancelled.           *)
(***************************************************************************)
EXTENDS Integers, Sequences, FiniteSets, TLC

\* ------------------------------------------------------------------ bounds
MaxReq == 3          \* HTTP requests served in one run
MaxSub == 2          \* newPost subscriptions opened in one run
MaxPub == 2          \* createPost requests served while subscriptions run
MaxCount == 2        \* count subscriptions opened in one run
MaxLimit == 3        \* largest limit argument of a count subscription

Requests == 1..MaxReq
Subs == 1..MaxSub
Counts == 1..MaxCount
Limits == 0..MaxLimit
Usernames == {"a", "c"}
Passwords == {"p", "q"}        \* tried at login
SignupPasswords == {"p"}       \* chosen at createUser
Salts == {"s1"}
Email == "e@x"
Body == "body"

JWT_SECRET_KEY == "secret"
OtherKey == "attacker"

NoUser == 0          \* request.user is UnauthenticatedUser
None == [none |-> TRUE]
NoPayload == [id |-> 0, token_id |-> 0]

\* ------------------------------------------------------- password hashing
\* base64.b64encode(hashlib.sha256(password.encode()).digest())
Digest(password) == <<"sha256", password>>

\* bcrypt.hashpw(digest, salt): the salt is kept in the hash
Hashpw(digest, salt) == [salt |-> salt, hash |-> <<salt, digest>>]

\* bcrypt.checkpw(digest, hashed): rehash with the stored salt and compare
Checkpw(digest, hashed) == Hashpw(digest, hashed.salt) = hashed

\* ------------------------------------------------------------------- JWT
\* uuid.uuid4(): a UUID object wrapping a number nobody drew before
Uuid(n) == [int |-> n]

\* UUID.hex: the number spelled out, without the object around it
Hex(u) == u.int

\* HMAC-SHA256 signature of the claim set under a key
Sign(key, id, token_id) == <<key, id, token_id>>

\* jwt.encode({"id": ..., "token_id": ...}, key, algorithm="HS256")
JwtEncode(id, token_id, key) ==
    [id |-> id, token_id |-> token_id, sig |-> Sign(key, id, token_id)]

\* jwt.decode(token, key): the claim set, or InvalidTokenError
JwtDecode(token, key) ==
    IF token.sig = Sign(key, token.id, token.token_id)
    THEN [ok |-> TRUE, id |-> token.id, token_id |-> token.token_id]
    ELSE [ok |-> FALSE, id |-> 0, token_id |-> 0]

\* ---------------------------------------------------------------- headers
NoHeader == <<>>
Bearer(token) == <<"Bearer", token>>

\* str.lower() on the scheme names the model sends
Lower(s) == CASE s = "Bearer" -> "bearer"
              [] s = "BEARER" -> "bearer"
              [] s = "Basic" -> "basic"
              [] OTHER -> s

\* JWTAuthBackend.authenticate up to its first await: what the header alone
\* decides.  kind is "anonymous" (return None), "raised" (auth.split() does
\* not unpack into two names: ValueError), "autherror" (AuthenticationError)
\* or "payload" (the decoded claim set, still to be checked against the
\* account record).
AuthenticateHeader(header) ==
    IF header = NoHeader
    THEN [kind |-> "anonymous", error |-> "", id |-> 0, token_id |-> 0]
    ELSE IF Len(header) # 2
    THEN [kind |-> "raised", error |-> "ValueError", id |-> 0, token_id |-> 0]
    ELSE IF Lower(header[1]) # "bearer"
    THEN [kind |-> "anonymous", error |-> "", id |-> 0, token_id |-> 0]
    ELSE LET payload == JwtDecode(header[2], JWT_SECRET_KEY) IN
         IF ~payload.ok
         THEN [kind |-> "autherror", error |-> "Signature verification failed",
               id |-> 0, token_id |-> 0]
         ELSE [kind |-> "payload", error |-> "",
               id |-> payload.id, token_id |-> payload.token_id]

\* ----------------------------------------------------------------- state
VARIABLES
    users,       \* the User table: sequence of rows, id = position
    posts,       \* the Post table: sequence of rows, id = position
    nextUuid,    \* source of uuid4 values
    req,         \* per HTTP request: operation, inputs, position, result
    listeners,   \* PUBSUB.listeners["new_post"]: list of subscriptions
    sub,         \* per subscription: state, queue, payloads pushed to client
    tasks,       \* event loop: the queue.put tasks scheduled by emit, FIFO,
                 \*   one batch per emit
    issued,      \* history: tokens handed out by login, with the account's
                 \*   logout count at that time
    logouts,     \* history: completed authenticated logouts per account id
    published,   \* history: emitted posts in order, with the listeners then
    counts       \* per count subscription: the counter generator's position
                 \*   and the values pushed to the client

vars == <<users, posts, nextUuid, req, listeners, sub, tasks,
          issued, logouts, published, counts>>

\* ------------------------------------------------------------ the tables
\* rows matching a filter, as the set of their ids
UsersByName(username) == {i \in 1..Len(users) : users[i].username = username}
UsersById(id) == {i \in 1..Len(users) : users[i].id = id}

\* Model.get(...): exactly one row, DoesNotExist, or MultipleObjectsReturned
Get(ids) ==
    IF ids = {} THEN [kind |-> "DoesNotExist", id |-> 0]
    ELSE IF Cardinality(ids) = 1
    THEN [kind |-> "row", id |-> CHOOSE i \in ids : TRUE]
    ELSE [kind |-> "MultipleObjectsReturned", id |-> 0]

\* User.create(...): append a row with the next id
UserRow(id, username, email, password, token_id) ==
    [id |-> id, username |-> username, email |-> email,
     password |-> password, token_id |-> token_id]

\* accounts already in db.sqlite3 when the process starts
SeedUsers ==
    << UserRow(1, "a", Email, Hashpw(Digest("p"), "s1"), Uuid(1)),
       UserRow(2, "b", Email, Hashpw(Digest("q"), "s1"), Uuid(2)) >>

SeedToken(i) ==
    JwtEncode(SeedUsers[i].id, Hex(SeedUsers[i].token_id), JWT_SECRET_KEY)

ForgedToken == JwtEncode(1, 1, OtherKey)

\* ---------------------------------------------------------------- results
Result(status, error, value) ==
    [status |-> status, error |-> error, value |-> value]

NoResult == Result("", "", None)

IdleReq ==
    [op |-> "none", username |-> "", password |-> "", header |-> NoHeader,
     title |-> 0, pc |-> "idle", payload |-> NoPayload, user |-> NoUser,
     row |-> 0, result |-> NoResult,
     authAt |-> 0,        \* history: logouts of the token's account completed
                          \*   when authenticate read the account
     prior |-> FALSE,     \* history: a createUser with this username had
                          \*   returned SUCCESSFUL when this one arrived
     loggedOut |-> {}]    \* history: the accounts that had completed a
                          \*   logout when authenticate read the account

\* since, until: history, the number of posts published when the
\* subscription was opened and when it was closed
NewSub == [state |-> "new", queue |-> <<>>, received |-> <<>>,
           since |-> 0, until |-> 0]

\* a count subscription before the client opens it
\* state: new, created (generator object made, body not entered), sleeping
\*   (suspended in asyncio.sleep), yielded (suspended at yield), done
\*   (loop exhausted), closed (exited on cancellation)
\* i: the loop variable; out: the values pushed to the client
\* cancelled, atCancel: history, whether the client cancelled and how many
\*   values it had been sent by then
NewCount == [state |-> "new", limit |-> 0, i |-> 0, out |-> <<>>,
             cancelled |-> FALSE, atCancel |-> 0]

UserIds == 1..(Len(SeedUsers) + MaxReq)

Init ==
    /\ users = SeedUsers
    /\ posts = <<>>
    /\ nextUuid = Len(SeedUsers) + 1
    /\ req = [r \in Requests |-> IdleReq]
    /\ listeners = <<>>
    /\ sub = [s \in Subs |-> NewSub]
    /\ tasks = <<>>
    /\ issued = {[token |-> SeedToken(i), id |-> SeedUsers[i].id,
                  rev |-> SeedUsers[i].token_id, epoch |-> 0] :
                   i \in 1..Len(SeedUsers)}
    /\ logouts = [i \in UserIds |-> 0]
    /\ published = <<>>
    /\ counts = [c \in Counts |-> NewCount]

Finish(r, result) == [req EXCEPT ![r].pc = "done", ![r].result = result]

\* ------------------------------------------------------ request arrival
\* the Authorization headers a client can send: none, a token some login
\* returned, or a token signed with another key
Headers == {NoHeader} \cup {Bearer(i.token) : i \in issued} \cup {Bearer(ForgedToken)}

\* some createUser with this username has returned SUCCESSFUL
SignedUp(username) ==
    \E q \in Requests : /\ req[q].op = "createUser"
                        /\ req[q].username = username
                        /\ req[q].pc = "done"
                        /\ req[q].result.status = "SUCCESSFUL"

\* AuthenticationMiddleware calls authenticate; on_auth_error turns an
\* AuthenticationError into the 401 response
Arrive(r, op, username, password, header) ==
    LET h == AuthenticateHeader(header)
        new == [IdleReq EXCEPT !.op = op, !.username = username,
                               !.password = password, !.header = header,
                               !.title = r,
                               !.prior = (op = "createUser" /\ SignedUp(username))]
    IN  req' = [req EXCEPT ![r] =
            CASE h.kind = "anonymous" -> [new EXCEPT !.pc = "resolve"]
              [] h.kind = "raised" ->
                   [new EXCEPT !.pc = "done",
                               !.result = Result("RAISED", h.error, None)]
              [] h.kind = "autherror" ->
                   [new EXCEPT !.pc = "done",
                               !.result = Result("HTTP401", h.error, None)]
              [] h.kind = "payload" ->
                   [new EXCEPT !.pc = "auth",
                               !.payload = [id |-> h.id, token_id |-> h.token_id]]]

NewRequest(r) ==
    /\ req[r].pc = "idle"
    /\ (r > 1) => (req[r - 1].pc # "idle")
    /\ \/ \E u \in Usernames, p \in SignupPasswords :
            Arrive(r, "createUser", u, p, NoHeader)
       \/ \E u \in Usernames, p \in Passwords :
            Arrive(r, "login", u, p, NoHeader)
       \/ \E op \in {"logout", "createPost"}, h \in Headers :
            Arrive(r, op, "", "", h)
    /\ UNCHANGED <<counts, users, posts, nextUuid, listeners, sub, tasks,
                   issued, logouts, published>>

\* the comparison left out: any signed token of the account passes
TokenIdIgnored(payload, row) == TRUE

\* payload['token_id'] != user.token_id.hex, negated
TokenIdMatches(payload, row) == payload.token_id = Hex(row.token_id)

\* JWTAuthBackend.authenticate from User.get on
Authenticate(r) ==
    /\ req[r].pc = "auth"
    /\ LET g == Get(UsersById(req[r].payload.id))
           at == [req EXCEPT ![r].authAt = logouts[req[r].payload.id],
                             ![r].loggedOut = {i \in UserIds : logouts[i] > 0}]
       IN
       req' =
         IF g.kind # "row"
         THEN [at EXCEPT ![r].pc = "done",
                  ![r].result = Result("HTTP401",
                                       "Invalid User, log in with a valid user", None)]
         ELSE IF ~TokenIdMatches(req[r].payload, users[g.id])
         THEN [at EXCEPT ![r].pc = "done",
                  ![r].result = Result("HTTP401", "Please log in again", None)]
         ELSE [at EXCEPT ![r].pc = "resolve", ![r].user = users[g.id].id]
    /\ UNCHANGED <<counts, users, posts, nextUuid, listeners, sub, tasks,
                   issued, logouts, published>>

\* ------------------------------------------------------------ createUser
\* create_user up to the return or the await of User.create
CreateUserGet(r) ==
    /\ req[r].pc = "resolve"
    /\ req[r].op = "createUser"
    /\ LET g == Get(UsersByName(req[r].username)) IN
       req' =
         CASE g.kind = "row" ->
                Finish(r, Result("FAILED", "User name is already in use", None))
           [] g.kind = "DoesNotExist" -> [req EXCEPT ![r].pc = "cu_create"]
           [] OTHER -> Finish(r, Result("RAISED", g.kind, None))
    /\ UNCHANGED <<counts, users, posts, nextUuid, listeners, sub, tasks,
                   issued, logouts, published>>

\* the row User.create inserts: hashed password, fresh token id.  The salt
\* and the uuid are drawn before the await; they read no shared state, so
\* they are drawn here.
NewUserRow(r, salt) ==
    UserRow(Len(users) + 1, req[r].username, Email,
            Hashpw(Digest(req[r].password), salt), Uuid(nextUuid))

\* User.create completes and create_user returns
CreateUserCreate(r) ==
    /\ req[r].pc = "cu_create"
    /\ \E salt \in Salts :
         /\ users' = Append(users, NewUserRow(r, salt))
         /\ req' = Finish(r, Result("SUCCESSFUL", "", [user |-> Len(users) + 1]))
    /\ nextUuid' = nextUuid + 1
    /\ UNCHANGED <<counts, posts, listeners, sub, tasks, issued, logouts, published>>

\* ----------------------------------------------------------------- login
\* the token signed with a key other than the one authenticate verifies with
LoginTokenWrongKey(row) == JwtEncode(row.id, Hex(row.token_id), OtherKey)

\* the token log_in encodes for an account row
LoginToken(row) == JwtEncode(row.id, Hex(row.token_id), JWT_SECRET_KEY)

LogIn(r) ==
    /\ req[r].pc = "resolve"
    /\ req[r].op = "login"
    /\ LET g == Get(UsersByName(req[r].username)) IN
         CASE g.kind = "DoesNotExist" ->
                /\ req' = Finish(r, Result("FAILED", "unable to log in", None))
                /\ issued' = issued
           [] g.kind = "row" ->
                IF Checkpw(Digest(req[r].password), users[g.id].password)
                THEN /\ req' = Finish(r, Result("SUCCESSFUL", "",
                                                [token |-> LoginToken(users[g.id])]))
                     /\ issued' = issued \cup
                          {[token |-> LoginToken(users[g.id]), id |-> users[g.id].id,
                            rev |-> users[g.id].token_id,
                            epoch |-> logouts[users[g.id].id]]}
                ELSE /\ req' = Finish(r, Result("FAILED", "unable to log in", None))
                     /\ issued' = issued
           [] OTHER ->
                /\ req' = Finish(r, Result("RAISED", g.kind, None))
                /\ issued' = issued
    /\ UNCHANGED <<counts, users, posts, nextUuid, listeners, sub, tasks,
                   logouts, published>>

\* ---------------------------------------------------------------- logout
\* the check left out: every caller passes
IsAnyUser(user) == TRUE

\* isinstance(request.user, JWTUser)
IsJWTUser(user) == user # NoUser

\* mutant of UpdateTokenId: the update is not filtered by id
UpdateAllTokenIds(id, token_id) ==
    [i \in 1..Len(users) |-> [users[i] EXCEPT !.token_id = token_id]]

\* mutant of UpdateTokenId: the update is not written
UpdateNothing(id, token_id) == users

\* User.get(id=...).update(token_id=...): every row with that id
UpdateTokenId(id, token_id) ==
    [i \in 1..Len(users) |->
        IF users[i].id = id THEN [users[i] EXCEPT !.token_id = token_id]
        ELSE users[i]]

LogOut(r) ==
    /\ req[r].pc = "resolve"
    /\ req[r].op = "logout"
    /\ IF ~IsJWTUser(req[r].user)
       THEN /\ req' = Finish(r, Result("FALSE", "", None))
            /\ UNCHANGED <<users, nextUuid, logouts>>
       ELSE /\ users' = UpdateTokenId(req[r].user, Uuid(nextUuid))
            /\ nextUuid' = nextUuid + 1
            /\ logouts' = [logouts EXCEPT ![req[r].user] = @ + 1]
            /\ req' = Finish(r, Result("TRUE", "", None))
    /\ UNCHANGED <<counts, posts, listeners, sub, tasks, issued, published>>

\* ------------------------------------------------------------ createPost
\* create_post up to the return or the await of Post.create
CreatePostGet(r) ==
    /\ req[r].pc = "resolve"
    /\ req[r].op = "createPost"
    /\ req' =
         IF ~IsJWTUser(req[r].user)
         THEN Finish(r, Result("AUTHERROR", "Please log in", None))
         ELSE LET g == Get(UsersById(req[r].user)) IN
              IF g.kind = "row"
              THEN [req EXCEPT ![r].pc = "cp_create", ![r].row = g.id]
              ELSE Finish(r, Result("FAILED",
                          "unable to create post, user does not exist", None))
    /\ UNCHANGED <<counts, users, posts, nextUuid, listeners, sub, tasks,
                   issued, logouts, published>>

PostRow(id, user, title, body) ==
    [id |-> id, user |-> user, title |-> title, body |-> body]

\* Post.create inserts the row
CreatePostCreate(r) ==
    /\ req[r].pc = "cp_create"
    /\ posts' = Append(posts, PostRow(Len(posts) + 1, users[req[r].row].id,
                                      req[r].title, Body))
    /\ req' = [req EXCEPT ![r].pc = "cp_emit", ![r].row = Len(posts) + 1]
    /\ UNCHANGED <<counts, users, nextUuid, listeners, sub, tasks,
                   issued, logouts, published>>

\* only the first listener is called
EmitFirst(ls, payload) ==
    [i \in 1..(IF ls = <<>> THEN 0 ELSE 1) |-> [to |-> ls[i], payload |-> payload]]

\* EventEmitter.emit: one queue.put task per listener registered now, in
\* list order, handed to the event loop (ensure_future); nothing is awaited
Emit(ls, payload) == [i \in 1..Len(ls) |-> [to |-> ls[i], payload |-> payload]]

\* the event loop's ready queue after an emit.  emit is one synchronous
\* call, so its tasks are neighbours in the queue and no other callback
\* runs between them: they are kept as one batch.  With no listener emit
\* schedules nothing.
Schedule(batch) == IF batch = <<>> THEN tasks ELSE Append(tasks, batch)

\* the publisher waits until every listener has consumed what it was sent
CreatePostEmitWaits(r) ==
    /\ req[r].pc = "cp_emit"
    /\ \A i \in 1..Len(listeners) : sub[listeners[i]].queue = <<>>
    /\ tasks' = Schedule(Emit(listeners, posts[req[r].row]))
    /\ published' = Append(published,
                           [post |-> posts[req[r].row],
                            to |-> {listeners[i] : i \in 1..Len(listeners)}])
    /\ req' = Finish(r, Result("SUCCESSFUL", "", [post |-> posts[req[r].row]]))
    /\ UNCHANGED <<counts, users, posts, nextUuid, listeners, sub, issued, logouts>>

\* mutant of CreatePostEmit: the call returns without publishing
CreatePostReturn(r) ==
    /\ req[r].pc = "cp_emit"
    /\ req' = Finish(r, Result("SUCCESSFUL", "", [post |-> posts[req[r].row]]))
    /\ UNCHANGED <<counts, users, posts, nextUuid, listeners, sub, tasks,
                   issued, logouts, published>>

\* PUBSUB.emit("new_post", post) and the return after it
CreatePostEmit(r) ==
    /\ req[r].pc = "cp_emit"
    /\ tasks' = Schedule(Emit(listeners, posts[req[r].row]))
    /\ published' = Append(published,
                           [post |-> posts[req[r].row],
                            to |-> {listeners[i] : i \in 1..Len(listeners)}])
    /\ req' = Finish(r, Result("SUCCESSFUL", "", [post |-> posts[req[r].row]]))
    /\ UNCHANGED <<counts, users, posts, nextUuid, listeners, sub, issued, logouts>>

\* ---------------------------------------------------------- subscription
\* a queue preloaded with everything published so far
ReplayQueue == [k \in 1..Len(published) |-> published[k].post]

\* Queue(): the queue a new EventEmitterAsyncIterator starts with
NewQueue == <<>>

\* subscribe_messages: EventEmitterAsyncIterator(PUBSUB, "new_post") makes
\* an empty queue and registers queue.put as listener
Subscribe(s) ==
    /\ sub[s].state = "new"
    /\ (s > 1) => (sub[s - 1].state # "new")
    /\ listeners' = Append(listeners, s)
    /\ sub' = [sub EXCEPT ![s] = [state |-> "open", queue |-> NewQueue,
                                  received |-> <<>>, since |-> Len(published),
                                  until |-> 0]]
    /\ UNCHANGED <<counts, users, posts, nextUuid, req, tasks, issued, logouts, published>>

\* what the puts of a batch leave in the queue of subscription s
Put(batch, s, queue) ==
    queue \o [k \in 1..Len(SelectSeq(batch, LAMBDA x : x.to = s)) |->
                 SelectSeq(batch, LAMBDA x : x.to = s)[k].payload]

\* the event loop runs the oldest scheduled batch of queue.put tasks: the
\* queues are unbounded, so every put completes in its first step
RunPut ==
    /\ tasks # <<>>
    /\ sub' = [s \in Subs |->
                 [sub[s] EXCEPT !.queue = Put(Head(tasks), s, sub[s].queue)]]
    /\ tasks' = Tail(tasks)
    /\ UNCHANGED <<counts, users, posts, nextUuid, req, listeners, issued, logouts, published>>

\* the newest queued payload is returned first
AnextNewest(s) ==
    /\ sub[s].state = "open"
    /\ sub[s].queue # <<>>
    /\ sub' = [sub EXCEPT ![s].received = Append(@, sub[s].queue[Len(sub[s].queue)]),
                          ![s].queue = SubSeq(@, 1, Len(@) - 1)]
    /\ UNCHANGED <<counts, users, posts, nextUuid, req, listeners, tasks,
                   issued, logouts, published>>

\* __anext__ returns the oldest queued payload; push_message hands it to
\* the client
Anext(s) ==
    /\ sub[s].state = "open"
    /\ sub[s].queue # <<>>
    /\ sub' = [sub EXCEPT ![s].received = Append(@, Head(sub[s].queue)),
                          ![s].queue = Tail(@)]
    /\ UNCHANGED <<counts, users, posts, nextUuid, req, listeners, tasks,
                   issued, logouts, published>>

\* the listener stays registered
RemoveNothing(ls, s) == ls

\* EventEmitter.remove_listener
Remove(ls, s) == SelectSeq(ls, LAMBDA x : x # s)

\* aclose on disconnect or stop: remove the listener, drain the queue,
\* mark closed
Aclose(s) ==
    /\ sub[s].state = "open"
    /\ listeners' = Remove(listeners, s)
    /\ sub' = [sub EXCEPT ![s].state = "closed", ![s].queue = <<>>,
                          ![s].until = Len(published)]
    /\ UNCHANGED <<counts, users, posts, nextUuid, req, tasks, issued, logouts, published>>

\* ------------------------------------------------------ count
\* range(limit): empty when limit <= 0
range(limit) == 0..(limit - 1)

\* the client subscribes to count(limit): the source generator is created
CountSubscribe(c) ==
    /\ counts[c].state = "new"
    /\ (c > 1) => (counts[c - 1].state # "new")
    /\ \E limit \in Limits :
          counts' = [counts EXCEPT ![c].state = "created", ![c].limit = limit]
    /\ UNCHANGED <<users, posts, nextUuid, req, listeners, sub, tasks,
                   issued, logouts, published>>

\* the consumer asks counter for its next value: the for loop takes the
\* next i of range(limit) and suspends in the sleep, or the range is
\* exhausted and the generator finishes
CounterNext(c) ==
    /\ counts[c].state \in {"created", "yielded"}
    /\ LET i == IF counts[c].state = "created" THEN 0 ELSE counts[c].i + 1
       IN  counts' = IF i \in range(counts[c].limit)
                     THEN [counts EXCEPT ![c].state = "sleeping", ![c].i = i]
                     ELSE [counts EXCEPT ![c].state = "done"]
    /\ UNCHANGED <<users, posts, nextUuid, req, listeners, sub, tasks,
                   issued, logouts, published>>

\* mutant of count: the counter's value is passed through unchanged
countIdentity(number) == number

\* the resolver of the count field
count(number) == number + 1

\* the sleep is over: counter yields i, the count resolver maps it and the
\* result is pushed to the client
CounterYield(c) ==
    /\ counts[c].state = "sleeping"
    /\ counts' = [counts EXCEPT ![c].state = "yielded",
                                ![c].out = Append(@, count(counts[c].i))]
    /\ UNCHANGED <<users, posts, nextUuid, req, listeners, sub, tasks,
                   issued, logouts, published>>

\* mutant of CountCancel: the generator swallows the cancellation and goes on
CountCancelSwallowed(c) ==
    /\ counts[c].state \in {"created", "sleeping", "yielded"}
    /\ ~counts[c].cancelled
    /\ counts' = [counts EXCEPT ![c].cancelled = TRUE,
                                ![c].atCancel = Len(counts[c].out)]
    /\ UNCHANGED <<users, posts, nextUuid, req, listeners, sub, tasks,
                   issued, logouts, published>>

\* the client cancels the subscription: the generator is closed at the
\* point where it is suspended (GeneratorExit at the yield, cancellation in
\* the sleep) and its body exits
CountCancel(c) ==
    /\ counts[c].state \in {"created", "sleeping", "yielded"}
    /\ counts' = [counts EXCEPT ![c].state = "closed",
                                ![c].cancelled = TRUE,
                                ![c].atCancel = Len(counts[c].out)]
    /\ UNCHANGED <<users, posts, nextUuid, req, listeners, sub, tasks,
                   issued, logouts, published>>

\* ----------------------------------------------------------- workloads
\* the headers the createPost workload sends: none, or the token of seed
\* account 1
PostHeaders == {NoHeader, Bearer(SeedToken(1))}

\* a createPost request arrives
NewPostRequest(r) ==
    /\ r <= MaxPub
    /\ req[r].pc = "idle"
    /\ (r > 1) => (req[r - 1].pc # "idle")
    /\ \E h \in PostHeaders : Arrive(r, "createPost", "", "", h)
    /\ UNCHANGED <<counts, users, posts, nextUuid, listeners, sub, tasks,
                   issued, logouts, published>>

\* the Authorization headers the header workload sends: none, a Bearer
\* token in three spellings of the scheme, another scheme, a token signed
\* with another key, the scheme alone, and three words
HeaderShapes ==
    {NoHeader,
     <<"Bearer", SeedToken(1)>>, <<"bearer", SeedToken(1)>>,
     <<"BEARER", SeedToken(1)>>, <<"Basic", SeedToken(1)>>,
     <<"Bearer", ForgedToken>>,
     <<"Bearer">>, <<"Bearer", SeedToken(1), SeedToken(1)>>}

\* a createPost request arrives with one of these headers
NewHeaderRequest(r) ==
    /\ r <= MaxPub
    /\ req[r].pc = "idle"
    /\ (r > 1) => (req[r - 1].pc # "idle")
    /\ \E h \in HeaderShapes : Arrive(r, "createPost", "", "", h)
    /\ UNCHANGED <<counts, users, posts, nextUuid, listeners, sub, tasks,
                   issued, logouts, published>>

\* the four mutations, running concurrently; no subscription is open
Next ==
    \/ \E r \in Requests : NewRequest(r)
    \/ \E r \in Requests : Authenticate(r)
    \/ \E r \in Requests : CreateUserGet(r)
    \/ \E r \in Requests : CreateUserCreate(r)
    \/ \E r \in Requests : LogIn(r)
    \/ \E r \in Requests : LogOut(r)
    \/ \E r \in Requests : CreatePostGet(r)
    \/ \E r \in Requests : CreatePostCreate(r)
    \/ \E r \in Requests : CreatePostEmit(r)

Spec == Init /\ [][Next]_vars

\* createPost requests and newPost subscriptions, running concurrently
NextBus ==
    \/ \E r \in Requests : NewPostRequest(r)
    \/ \E r \in Requests : Authenticate(r)
    \/ \E r \in Requests : CreatePostGet(r)
    \/ \E r \in Requests : CreatePostCreate(r)
    \/ \E r \in Requests : CreatePostEmit(r)
    \/ \E s \in Subs : Subscribe(s)
    \/ RunPut
    \/ \E s \in Subs : Anext(s)
    \/ \E s \in Subs : Aclose(s)

SpecBus == Init /\ [][NextBus]_vars

\* createPost requests with every shape of Authorization header
NextHeader ==
    \/ \E r \in Requests : NewHeaderRequest(r)
    \/ \E r \in Requests : Authenticate(r)
    \/ \E r \in Requests : CreatePostGet(r)
    \/ \E r \in Requests : CreatePostCreate(r)
    \/ \E r \in Requests : CreatePostEmit(r)

SpecHeader == Init /\ [][NextHeader]_vars

\* count subscriptions, running concurrently
NextCount ==
    \/ \E c \in Counts : CountSubscribe(c)
    \/ \E c \in Counts : CounterNext(c)
    \/ \E c \in Counts : CounterYield(c)
    \/ \E c \in Counts : CountCancel(c)

SpecCount == Init /\ [][NextCount]_vars

\* ================================================================ claims
\* request r carries the token of issuance record i in its header
Carries(r, i) == Len(req[r].header) = 2 /\ req[r].header[2] = i.token

\* authenticate has read the account record for request r
AuthRead(r) == req[r].pc \notin {"idle", "auth"}

\* C1: a request carrying a token that was issued for an account before a
\* logout of that account completed, and authenticated after it, is rejected
\* with an authentication error and is never given the account's identity.
C1_Revocation ==
    \A r \in Requests, i \in issued :
        (Carries(r, i) /\ AuthRead(r) /\ i.epoch < req[r].authAt)
        => /\ req[r].user = NoUser
           /\ req[r].pc = "done"
           /\ req[r].result.status = "HTTP401"

\* a request was rejected because its token predates a logout
C1_Witness ==
    \E r \in Requests, i \in issued :
        /\ Carries(r, i) /\ AuthRead(r) /\ i.epoch < req[r].authAt
        /\ req[r].result = Result("HTTP401", "Please log in again", None)

\* C2: every issued token decodes to exactly the account's id and the
\* revocation token the account had at login; a request carrying it and
\* authenticated with no logout of the account in between is authenticated
\* as that account, and its createPost succeeds.
C2_LoginTokenAuthenticates ==
    /\ \A i \in issued :
          JwtDecode(i.token, JWT_SECRET_KEY) =
              [ok |-> TRUE, id |-> i.id, token_id |-> Hex(i.rev)]
    /\ \A r \in Requests, i \in issued :
          (Carries(r, i) /\ AuthRead(r) /\ i.epoch = req[r].authAt)
          => /\ req[r].user = i.id
             /\ (req[r].op = "createPost" /\ req[r].pc = "done")
                  => req[r].result.status = "SUCCESSFUL"

\* a login returned a token after a logout had changed the account's
\* revocation token, and a createPost carrying that token succeeded
C2_Witness ==
    \E q \in Requests, r \in Requests :
        /\ req[q].op = "login" /\ req[q].pc = "done"
        /\ req[q].result.status = "SUCCESSFUL"
        /\ req[q].result.value.token \notin {SeedToken(k) : k \in 1..Len(SeedUsers)}
        /\ req[r].op = "createPost" /\ req[r].pc = "done"
        /\ req[r].header = Bearer(req[q].result.value.token)
        /\ req[r].result.status = "SUCCESSFUL"

\* C3: a createUser that arrives after a createUser with the same username
\* returned SUCCESSFUL never reaches User.create and returns FAILED with an
\* error.
C3_DuplicateRejected ==
    \A r \in Requests :
        (req[r].op = "createUser" /\ req[r].prior)
        => /\ req[r].pc # "cu_create"
           /\ req[r].pc = "done"
                => (req[r].result.status = "FAILED" /\ req[r].result.error # "")

\* C4: no two stored accounts have the same username.
C4_UniqueUsernames ==
    \A i \in 1..Len(users), j \in 1..Len(users) :
        users[i].username = users[j].username => i = j

\* the createPost resolver runs, or has run, for request r with
\* request.user unauthenticated
Unauthenticated(r) ==
    /\ req[r].op = "createPost"
    /\ req[r].pc \in {"resolve", "done"}
    /\ req[r].user = NoUser
    /\ req[r].result.status \notin {"HTTP401", "RAISED"}

RECURSIVE Pending(_, _)
\* the payloads of the scheduled puts for subscription s, oldest first
Pending(ts, s) ==
    IF ts = <<>> THEN <<>> ELSE Put(Head(ts), s, <<>>) \o Pending(Tail(ts), s)

\* the payloads that are in flight to, queued at or received by a subscription
Stream(s) == sub[s].received \o sub[s].queue \o Pending(tasks, s)

Range(f) == {f[k] : k \in DOMAIN f}

\* C5: a createPost by an unauthenticated request returns AUTHERROR; no
\* stored post, no published event and no subscriber's stream holds a post
\* of that request.
C5_AuthGate ==
    \A r \in Requests :
        Unauthenticated(r)
        => /\ req[r].pc = "done"
                => req[r].result = Result("AUTHERROR", "Please log in", None)
           /\ \A k \in 1..Len(posts) : posts[k].title # req[r].title
           /\ \A k \in 1..Len(published) : published[k].post.title # req[r].title
           /\ \A s \in Subs :
                 LET stream == Stream(s) IN
                 \A i \in DOMAIN stream : stream[i].title # req[r].title

\* an unauthenticated createPost has returned while a subscription is open
C5_Witness ==
    \E r \in Requests, s \in Subs :
        /\ Unauthenticated(r) /\ req[r].pc = "done"
        /\ sub[s].state = "open"

Count(x, seq) == Cardinality({k \in DOMAIN seq : seq[k] = x})

\* position of a post in the order of publication
PubIndex(p) == CHOOSE k \in 1..Len(published) : published[k].post = p

Open == {s \in Subs : sub[s].state = "open"}

\* C6, as stated: every subscription that was open when a post was
\* published receives it exactly once; so a subscription that has been
\* closed, or has nothing more of it on the way, has received it once.
C6_FanOutAll ==
    \A k \in 1..Len(published) : \A s \in published[k].to :
        (sub[s].state = "closed"
           \/ Count(published[k].post, Stream(s))
                = Count(published[k].post, sub[s].received))
        => Count(published[k].post, sub[s].received) = 1

\* C6, amended: a post is put exactly once on the stream of every
\* subscription open when it was published, and stays there, on the way,
\* queued or received, while the subscription is open; a subscription
\* closed before reading it has not received it; nobody receives it twice.
C6_FanOut ==
    \A s \in Subs :
        LET stream == IF sub[s].state = "open" THEN Stream(s) ELSE sub[s].received
        IN  \A k \in 1..Len(published) :
                s \in published[k].to
                => IF sub[s].state = "open"
                   THEN Count(published[k].post, stream) = 1
                   ELSE Count(published[k].post, stream) <= 1

\* two open subscriptions have each received the one published post
C6_Witness ==
    /\ Len(published) = 1
    /\ \E s1 \in Open, s2 \in Open :
          /\ s1 # s2
          /\ published[1].to = {s1, s2}
          /\ sub[s1].received = <<published[1].post>>
          /\ sub[s2].received = <<published[1].post>>

\* C7: nothing on a subscription's stream was published before the
\* subscription was opened, and a subscription not yet opened has no stream.
C7_NoReplay ==
    \A s \in Subs :
        LET stream == Stream(s) IN
        /\ \A i \in DOMAIN stream :
              \E k \in (sub[s].since + 1)..Len(published) :
                  published[k].post = stream[i]
        /\ sub[s].state = "new" => stream = <<>>

\* a subscription opened after a publication has received a later post
C7_Witness ==
    \E s \in Subs :
        /\ sub[s].since >= 1
        /\ sub[s].received # <<>>

\* C8: each subscription receives payloads in the order of publication.
C8_PublishOrder ==
    \A s \in Subs : \A i \in DOMAIN sub[s].received, j \in DOMAIN sub[s].received :
        i < j => PubIndex(sub[s].received[i]) < PubIndex(sub[s].received[j])

\* a subscription has received two posts that were published in the
\* reverse of the order in which they were stored
C8_Witness ==
    \E s \in Subs :
        /\ Len(sub[s].received) = 2
        /\ sub[s].received[1].id > sub[s].received[2].id

\* C9: the registered listeners are exactly the open subscriptions, each
\* once; a closed subscription is sent nothing published after its close
\* and has received nothing published after it.
C9_ListenersAreOpen ==
    /\ Range(listeners) = Open
    /\ Len(listeners) = Cardinality(Open)
    /\ \A s \in Subs :
          sub[s].state = "closed"
          => /\ \A k \in 1..Len(published) :
                    k > sub[s].until => s \notin published[k].to
             /\ \A x \in Range(sub[s].received) : PubIndex(x) <= sub[s].until

\* a post was published after one subscription closed, another being open
C9_Witness ==
    \E s \in Subs, o \in Open :
        /\ sub[s].state = "closed"
        /\ Len(published) > sub[s].until
        /\ o \in published[Len(published)].to

\* C10: a createPost that has stored its post can always take its publish
\* step, whatever the subscriptions hold unread, and that step returns the
\* success result with the post published.
C10_PublisherNeverBlocks ==
    \A r \in Requests :
        /\ req[r].pc = "cp_emit" => ENABLED CreatePostEmit(r)
        /\ (req[r].op = "createPost" /\ req[r].pc = "done"
              /\ \E k \in 1..Len(posts) : posts[k].title = req[r].title)
           => /\ req[r].result.status = "SUCCESSFUL"
              /\ \E k \in 1..Len(published) :
                    published[k].post = req[r].result.value.post

\* two createPost calls have returned while an open subscription has read
\* neither post
C10_Witness ==
    \E s \in Open :
        /\ sub[s].received = <<>>
        /\ Len(sub[s].queue) = 2
        /\ \A r \in 1..2 : req[r].pc = "done" /\ req[r].result.status = "SUCCESSFUL"

\* C11: count(limit) sends the client 1, 2, ..., limit in increasing order,
\* one value per emission, and then finishes: at every moment the values
\* sent so far are 1..n for some n <= limit, one more than the number of
\* completed yields, and when the generator has finished they are exactly
\* 1..limit
C11_CountSequence ==
    \A c \in Counts :
        LET k == counts[c]
        IN  /\ Len(k.out) <= k.limit
            /\ \A n \in 1..Len(k.out) : k.out[n] = n
            /\ (k.state = "sleeping") => (Len(k.out) = k.i)
            /\ (k.state = "yielded") => (Len(k.out) = k.i + 1)
            /\ (k.state = "done") => (Len(k.out) = k.limit)

\* a count(3) subscription has finished after sending 1, 2, 3
C11_Witness ==
    \E c \in Counts :
        /\ counts[c].state = "done"
        /\ counts[c].limit = 3
        /\ counts[c].out = <<1, 2, 3>>

\* C18: once the client has cancelled a count subscription the generator
\* has exited and the client is sent no further value
C18_CancelStops ==
    \A c \in Counts :
        counts[c].cancelled =>
            /\ counts[c].state = "closed"
            /\ Len(counts[c].out) = counts[c].atCancel

\* a count subscription was cancelled between two values, before limit
\* values were sent
C18_Witness ==
    \E c \in Counts :
        /\ counts[c].cancelled
        /\ counts[c].atCancel > 0
        /\ counts[c].atCancel < counts[c].limit

\* the credentials of login request r match no account: the username is
\* unknown, or no account of that name has this password
BadCredentials(r) ==
    \A i \in UsersByName(req[r].username) :
        ~Checkpw(Digest(req[r].password), users[i].password)

\* C12: a login that fails, for an unknown username or for a wrong password
\* alike, returns {status: FAILED, error: "unable to log in"} and issues no
\* token
C12_LoginFailureUniform ==
    \A r \in Requests :
        (req[r].op = "login" /\ req[r].pc = "done" /\ BadCredentials(r)) =>
            req[r].result = Result("FAILED", "unable to log in", None)

\* C15: every createUser invocation ends by returning SUCCESSFUL or FAILED,
\* never by raising
C15_CreateUserNeverRaises ==
    \A r \in Requests :
        (req[r].op = "createUser" /\ req[r].pc = "done") =>
            req[r].result.status \in {"SUCCESSFUL", "FAILED"}

\* the header is not of the form "<scheme> <token>" with scheme bearer in
\* any letter case
Malformed(header) ==
    \/ header = NoHeader
    \/ Len(header) # 2
    \/ Lower(header[1]) # "bearer"

\* C13: a request whose Authorization header is absent, names another
\* scheme or is not of the form "<scheme> <token>" is served as
\* unauthenticated with no error; the scheme is matched in any letter case;
\* an authentication error is produced only for a Bearer token that fails
\* verification
C13_HeaderHandling ==
    \A r \in Requests :
        (req[r].pc # "idle") =>
            /\ Malformed(req[r].header) =>
                  /\ req[r].pc # "auth"
                  /\ req[r].user = NoUser
                  /\ req[r].result.status \notin {"RAISED", "HTTP401"}
            /\ (req[r].result.status = "HTTP401") => ~Malformed(req[r].header)
            /\ (req[r].header \in {<<"bearer", SeedToken(1)>>,
                                   <<"BEARER", SeedToken(1)>>}
                  /\ req[r].pc = "done") => IsJWTUser(req[r].user)

\* request r takes its logout step
LogOutStep(r) ==
    /\ req[r].op = "logout"
    /\ req[r].pc = "resolve"
    /\ req'[r].pc = "done"

\* the revocation tokens in use or ever embedded in an issued token
KnownTokenIds ==
    {users[i].token_id : i \in DOMAIN users} \cup {t.rev : t \in issued}

\* C14: a logout by an unauthenticated caller returns false and leaves
\* every account's revocation token unchanged; a logout by an authenticated
\* caller returns true and gives the caller's account a revocation token
\* that differs from the one it had and from every one seen before
C14_LogoutResult ==
    [][\A r \in Requests :
          LogOutStep(r) =>
              IF req[r].user = NoUser
              THEN /\ req'[r].result.status = "FALSE"
                   /\ users' = users
              ELSE /\ req'[r].result.status = "TRUE"
                   /\ \A i \in DOMAIN users :
                         (users[i].id = req[r].user) =>
                             /\ users'[i].token_id # users[i].token_id
                             /\ users'[i].token_id \notin KnownTokenIds]_vars

\* an authenticated logout has returned true and the caller's account
\* carries a revocation token generated after the seed ones, while an
\* unauthenticated logout has returned false
C14_Witness ==
    \E q, r \in Requests :
        /\ req[q].op = "logout" /\ req[q].pc = "done"
        /\ req[q].result.status = "TRUE"
        /\ Hex(users[req[q].user].token_id) > Len(SeedUsers)
        /\ req[r].op = "logout" /\ req[r].pc = "done"
        /\ req[r].result.status = "FALSE"

\* the posts request r has persisted, and the events it has published
PersistedBy(r) == {k \in DOMAIN posts : posts[k].title = r}
PublishedBy(r) == {k \in DOMAIN published : published[k].post.title = r}

\* C16: createPost persists and publishes together and in order: a call
\* has published an event only if it persisted a post, the event carries
\* that post, a persisted post is without its event only while the call is
\* between Post.create and emit, a call has returned success exactly when
\* it has published, and it publishes one event only
C16_PersistThenPublish ==
    /\ \A k \in DOMAIN published :
          LET post == published[k].post
              r == post.title
          IN  /\ post.id \in DOMAIN posts
              /\ posts[post.id] = post
              /\ req[r].pc = "done"
              /\ req[r].result = Result("SUCCESSFUL", "", [post |-> post])
              /\ \A j \in DOMAIN published :
                    (published[j].post.title = r) => (j = k)
    /\ \A k \in DOMAIN posts :
          LET r == posts[k].title
          IN  /\ req[r].row = k
              /\ \/ req[r].pc = "cp_emit"
                 \/ \E j \in DOMAIN published : published[j].post = posts[k]
    /\ \A r \in Requests :
          (req[r].pc = "done" /\ req[r].result.status = "SUCCESSFUL") =>
              \E j \in DOMAIN published : published[j].post.title = r
    /\ \A b \in DOMAIN tasks : \A t \in DOMAIN tasks[b] :
          \E k \in DOMAIN published : tasks[b][t].payload = published[k].post

\* two createPost calls have returned success, each with its post stored
\* and its one event published, the first while a subscription was listening
C16_Witness ==
    /\ Len(posts) = 2
    /\ Len(published) = 2
    /\ published[1].to # {}
    /\ \A r \in 1..2 :
          /\ req[r].pc = "done"
          /\ req[r].result.status = "SUCCESSFUL"
          /\ Cardinality(PublishedBy(r)) = 1

\* request r takes its Post.create step
PersistStep(r) == req[r].pc = "cp_create" /\ req'[r].pc = "cp_emit"

\* C17 as stated: once a logout for an account has completed, no createPost
\* call carrying a token issued before that logout persists a post for it,
\* a call that authenticated before the logout included
C17_NoPersistAfterLogout ==
    [][\A r \in Requests :
          PersistStep(r) =>
              \A i \in issued : Carries(r, i) => (logouts[i.id] = i.epoch)]_vars

\* C17: revocation takes effect at authentication: a createPost call whose
\* authenticate read the account after a logout completed, with a token
\* issued before that logout, persists no post; every post was persisted
\* for the account of a token that matched when the call authenticated
C17_NoPersistAfterStaleAuth ==
    \A r \in Requests :
        \A i \in issued :
            (Carries(r, i) /\ AuthRead(r)) =>
                /\ (i.epoch < req[r].authAt) => (PersistedBy(r) = {})
                /\ \A k \in PersistedBy(r) :
                      /\ posts[k].user = i.id
                      /\ i.epoch = req[r].authAt

\* a createPost call carrying a token issued before a completed logout
\* authenticated after it and ended without a post, while another call
\* carrying the same token has persisted one
C17_Witness ==
    \E q, r \in Requests : \E i \in issued :
        /\ req[r].op = "createPost" /\ req[r].pc = "done"
        /\ Carries(r, i) /\ i.epoch < req[r].authAt
        /\ PersistedBy(r) = {}
        /\ Carries(q, i) /\ PersistedBy(q) # {}

\* C19: a logout by one account changes the revocation token of that
\* account only: every other account's record is unchanged, and every token
\* issued for another account matches its account after the logout exactly
\* when it did before
C19_LogoutScoped ==
    [][\A r \in Requests :
          (LogOutStep(r) /\ req[r].user # NoUser) =>
              /\ \A i \in DOMAIN users :
                    (users[i].id # req[r].user) => (users'[i] = users[i])
              /\ \A t \in issued :
                    (t.id # req[r].user) =>
                        (TokenIdMatches(JwtDecode(t.token, JWT_SECRET_KEY),
                                        users'[t.id])
                           <=> TokenIdMatches(JwtDecode(t.token, JWT_SECRET_KEY),
                                              users[t.id]))]_vars

\* after account 1 logged out, a request carrying the seed token of
\* account 2 was authenticated as account 2, whose revocation token is the
\* one it started with
C19_Witness ==
    \E r \in Requests :
        /\ req[r].header = Bearer(SeedToken(2))
        /\ req[r].user = 2
        /\ 1 \in req[r].loggedOut
        /\ 2 \notin req[r].loggedOut
        /\ users[2].token_id = SeedUsers[2].token_id

====
